---- MODULE Spec2Model ----
(***************************************************************************)
(* Model of generate-docker-compose.py: generate_compose() expands the     *)
(* RANGES table into a compose document (services, networks, volumes) and  *)
(* writes it to OUTPUT_FILE with yaml.dump.                                *)
(*                                                                         *)
(* Python str values that the program builds or takes apart (dict keys,    *)
(* subnets, addresses) are sequences of one-character strings; a Python    *)
(* dict is the sequence of its items [k, v] in insertion order.  Opaque    *)
(* literals that are only copied ('bridge', 'unless-stopped') stay TLA+    *)
(* strings.                                                                *)
(***************************************************************************)
EXTENDS Integers, Sequences, FiniteSets, TLC

VARIABLES RANGES, prev, file, pc, services, networks, volumes, proxy_nets,
          i, j, base, compose, out, printed

vars == <<RANGES, prev, file, pc, services, networks, volumes, proxy_nets,
          i, j, base, compose, out, printed>>

----------------------------------------------------------------------------
(* Bounds of the explored inputs *)

MaxSpecs == 2

MaxCount == 2

----------------------------------------------------------------------------
(* Python primitives *)

Digit == <<"0", "1", "2", "3", "4", "5", "6", "7", "8", "9">>

RECURSIVE NatStr(_)
NatStr(n) == IF n < 10 THEN <<Digit[n + 1]>>
             ELSE NatStr(n \div 10) \o <<Digit[(n % 10) + 1]>>

\* f"{n}" for an int n
IntStr(n) == IF n < 0 THEN <<"-">> \o NatStr(0 - n) ELSE NatStr(n)

\* s.rsplit('.', 1)[0]: the text before the last '.', or all of s without one
RsplitHead(s) ==
    LET dots == {n \in 1..Len(s) : s[n] = "."}
    IN  IF dots = {} THEN s
        ELSE SubSeq(s, 1, (CHOOSE n \in dots : \A m \in dots : m <= n) - 1)

DictKeys(d) == [n \in 1..Len(d) |-> d[n].k]

DictKeySet(d) == {d[n].k : n \in 1..Len(d)}

\* d[k] = v: an existing key keeps its position, a new key goes last
DictSet(d, k, v) ==
    IF \E n \in 1..Len(d) : d[n].k = k
    THEN [n \in 1..Len(d) |-> IF d[n].k = k THEN [k |-> k, v |-> v] ELSE d[n]]
    ELSE Append(d, [k |-> k, v |-> v])

DictGet(d, k) == d[CHOOSE n \in 1..Len(d) : d[n].k = k].v

EmptyDict == [x \in {} |-> TRUE]

----------------------------------------------------------------------------
(* Module-level constants of the script *)

RESERVED_OFFSET == 31

S_proxy == <<"p", "r", "o", "x", "y">>

S_cidrx == <<"c", "i", "d", "r", "x">>

S_filebeat == <<"f", "i", "l", "e", "b", "e", "a", "t">>

S_filebeat_data == S_filebeat \o <<"_", "d", "a", "t", "a">>

S_services == <<"s", "e", "r", "v", "i", "c", "e", "s">>

S_networks == <<"n", "e", "t", "w", "o", "r", "k", "s">>

S_volumes == <<"v", "o", "l", "u", "m", "e", "s">>

PROXY_BUILD == [context |-> "./proxy", dockerfile |-> "Dockerfile"]

CLIENT_BUILD == [context |-> "./client", dockerfile |-> "Dockerfile"]

FILEBEAT_BUILD == [context |-> "./filebeat", dockerfile |-> "Dockerfile"]

CIDRX_BUILD == [context |-> "./cidrx", dockerfile |-> "Dockerfile"]

TARGET_URL == "http://proxy:80/"

SORT_KEYS == FALSE

----------------------------------------------------------------------------
(* Names and definitions built by generate_compose *)

\* f'net{i+1}' for the 0-based enumerate index i
NetName(n) == <<"n", "e", "t">> \o IntStr(n + 1)

\* a name that leaves the segment index out: f'client{j}'
ClientNameNoSegment(n, slot) == <<"c", "l", "i", "e", "n", "t">> \o IntStr(slot)

\* f'client{i+1}_{j}'
ClientName(n, slot) ==
    <<"c", "l", "i", "e", "n", "t">> \o IntStr(n + 1) \o <<"_">> \o IntStr(slot)

\* f"{base}.{31+j}"
ClientAddress(b, slot) == b \o <<".">> \o IntStr(RESERVED_OFFSET + slot)

\* the comprehension over range(len(RANGES) - 1): the last network is missed
ProxyNetsShort(ranges) ==
    [n \in 1..(Len(ranges) - 1) |-> [k |-> NetName(n - 1), v |-> EmptyDict]]

\* the comprehension over range(len(RANGES) + 1): one network too many
ProxyNetsExtra(ranges) ==
    [n \in 1..(Len(ranges) + 1) |-> [k |-> NetName(n - 1), v |-> EmptyDict]]

\* {f'net{i+1}': {} for i in range(len(RANGES))}
ProxyNets(ranges) ==
    [n \in 1..Len(ranges) |-> [k |-> NetName(n - 1), v |-> EmptyDict]]

ProxyService(nets) ==
    [build          |-> PROXY_BUILD,
     container_name |-> S_proxy,
     restart        |-> "unless-stopped",
     ports          |-> <<"80">>,
     volumes        |-> <<"/tmp:/var/log/nginx:rw">>,
     networks       |-> nets]

CidrxService(nets) ==
    [build          |-> CIDRX_BUILD,
     container_name |-> S_cidrx,
     restart        |-> "unless-stopped",
     ports          |-> <<"9000:9000">>,
     networks       |-> nets]

FilebeatService(nets) ==
    [build          |-> FILEBEAT_BUILD,
     container_name |-> S_filebeat,
     user           |-> "root",
     depends_on     |-> <<S_proxy, S_cidrx>>,
     restart        |-> "unless-stopped",
     networks       |-> nets,
     volumes        |-> <<"/tmp:/var/log/nginx:ro",
                          "filebeat_data:/usr/share/filebeat/data">>,
     environment    |-> [INGESTOR_HOST |-> "cidrx:9000",
                         PROXY_CONTAINER_NAME |-> "proxy"]]

NetworkDef(subnet) ==
    [driver |-> "bridge",
     ipam   |-> [driver |-> "default", config |-> <<[subnet |-> subnet]>>]]

\* a client that names itself in depends_on
ClientServiceSelfDep(name, net_name, b, slot, interval) ==
    [build          |-> CLIENT_BUILD,
     container_name |-> name,
     depends_on     |-> <<name>>,
     networks       |-> <<[k |-> net_name,
                           v |-> [ipv4_address |-> ClientAddress(b, slot)]]>>,
     environment    |-> [TARGET_URL |-> TARGET_URL, INTERVAL |-> interval]]

ClientService(name, net_name, b, slot, interval) ==
    [build          |-> CLIENT_BUILD,
     container_name |-> name,
     depends_on     |-> <<S_proxy>>,
     networks       |-> <<[k |-> net_name,
                           v |-> [ipv4_address |-> ClientAddress(b, slot)]]>>,
     environment    |-> [TARGET_URL |-> TARGET_URL, INTERVAL |-> interval]]

----------------------------------------------------------------------------
(* yaml.dump(compose, f, sort_keys=False): the mapping is emitted top-level *)
(* key by top-level key, each followed by the items of its mapping, to the  *)
(* stream as the emitter goes.                                              *)

Punct == <<"-", ".", "/">>

Lower == <<"a", "b", "c", "d", "e", "f", "g", "h", "i", "j", "k", "l", "m",
           "n", "o", "p", "q", "r", "s", "t", "u", "v", "w", "x", "y", "z">>

\* code point of a character
Ord(c) ==
    IF \E n \in 1..3 : Punct[n] = c
    THEN 44 + (CHOOSE n \in 1..3 : Punct[n] = c)
    ELSE IF \E n \in 1..10 : Digit[n] = c
    THEN 47 + (CHOOSE n \in 1..10 : Digit[n] = c)
    ELSE IF c = "_" THEN 95
    ELSE 96 + (CHOOSE n \in 1..26 : Lower[n] = c)

\* a < b for Python str
RECURSIVE StrLess(_, _)
StrLess(a, b) ==
    IF b = <<>> THEN FALSE
    ELSE IF a = <<>> THEN TRUE
    ELSE IF Head(a) = Head(b) THEN StrLess(Tail(a), Tail(b))
    ELSE Ord(Head(a)) < Ord(Head(b))

RECURSIVE InsertSorted(_, _)
InsertSorted(it, d) ==
    IF d = <<>> THEN <<it>>
    ELSE IF StrLess(it.k, Head(d).k) THEN <<it>> \o d
    ELSE <<Head(d)>> \o InsertSorted(it, Tail(d))

RECURSIVE SortItems(_)
SortItems(d) == IF d = <<>> THEN <<>>
                ELSE InsertSorted(Head(d), SortItems(Tail(d)))

\* yaml.dump's own default, sort_keys=True, whatever the caller passes
DictItemsSorted(d, sort_keys) == SortItems(d)

\* the order in which the representer walks a mapping
DictItems(d, sort_keys) == IF sort_keys THEN SortItems(d) ELSE d

DumpSection(item, sort_keys) ==
    LET its == DictItems(item.v, sort_keys)
    IN  <<[section |-> item.k, key |-> <<>>, header |-> TRUE,
           value |-> EmptyDict]>>
        \o [n \in 1..Len(its) |->
              [section |-> item.k, key |-> its[n].k, header |-> FALSE,
               value |-> its[n].v]]

RECURSIVE DumpSections(_, _)
DumpSections(items, sort_keys) ==
    IF items = <<>> THEN <<>>
    ELSE DumpSection(Head(items), sort_keys)
         \o DumpSections(Tail(items), sort_keys)

yaml_dump(data, sort_keys) == DumpSections(DictItems(data, sort_keys), sort_keys)

----------------------------------------------------------------------------
(* Inputs: the RANGES table and the destination file before the run *)

Cidr(a, b, c, d, p) ==
    IntStr(a) \o <<".">> \o IntStr(b) \o <<".">> \o IntStr(c) \o <<".">>
    \o IntStr(d) \o <<"/">> \o IntStr(p)

\* '10.0.1/24': an octet is missing
MalformedCidr == IntStr(10) \o <<".">> \o IntStr(0) \o <<".">> \o IntStr(1)
                 \o <<"/">> \o IntStr(24)

Subnets == {Cidr(10, 0, 1, 0, 24), Cidr(10, 0, 2, 0, 24), Cidr(10, 0, 1, 0, 28),
            Cidr(10, 0, 1, 128, 25), MalformedCidr}

\* intervals in hundredths of a second
Intervals == {10}

SmallSpecs == {<<s, c, t>> : s \in Subnets, c \in (0 - 1)..MaxCount,
                             t \in Intervals}

\* one /24 filled to the edge of its host space: .254, .255 and past it
BoundaryLists == {<<<<Cidr(10, 0, 1, 0, 24), c, 10>>>> : c \in {223, 224, 225}}

\* the table at the top of the script
HardcodedRANGES ==
    <<<<Cidr(172, 16, 1, 0, 24), 4, 10>>,
      <<Cidr(172, 16, 2, 0, 24), 2, 10>>,
      <<Cidr(172, 16, 3, 0, 24), 5, 10>>,
      <<Cidr(172, 16, 16, 0, 24), 33, 7>>>>

SpecLists == UNION {[1..n -> SmallSpecs] : n \in 0..MaxSpecs}
             \cup BoundaryLists \cup {HardcodedRANGES}

Absent == [exists |-> FALSE, content |-> <<>>]

OldFile ==
    [exists |-> TRUE,
     content |-> <<[section |-> <<"o", "l", "d">>, key |-> <<>>,
                    header |-> TRUE, value |-> EmptyDict]>>]

----------------------------------------------------------------------------
(* generate_compose, statement by statement *)

Init ==
    /\ RANGES \in SpecLists
    /\ prev \in {Absent, OldFile}
    /\ file = prev
    /\ pc = "begin"
    /\ services = <<>>
    /\ networks = <<>>
    /\ volumes = <<>>
    /\ proxy_nets = <<>>
    /\ i = 0
    /\ j = 0
    /\ base = <<>>
    /\ compose = <<>>
    /\ out = <<>>
    /\ printed = <<>>

\* services = {}; networks = {}; volumes = {...}; proxy_nets = {...}
Begin ==
    /\ pc = "begin"
    /\ services' = <<>>
    /\ networks' = <<>>
    /\ volumes' = <<[k |-> S_filebeat_data, v |-> EmptyDict]>>
    /\ proxy_nets' = ProxyNets(RANGES)
    /\ pc' = "proxy"
    /\ UNCHANGED <<RANGES, prev, file, i, j, base, compose, out, printed>>

AddProxy ==
    /\ pc = "proxy"
    /\ services' = DictSet(services, S_proxy, ProxyService(proxy_nets))
    /\ pc' = "cidrx"
    /\ UNCHANGED <<RANGES, prev, file, networks, volumes, proxy_nets, i, j,
                   base, compose, out, printed>>

AddCidrx ==
    /\ pc = "cidrx"
    /\ services' = DictSet(services, S_cidrx, CidrxService(proxy_nets))
    /\ pc' = "filebeat"
    /\ UNCHANGED <<RANGES, prev, file, networks, volumes, proxy_nets, i, j,
                   base, compose, out, printed>>

AddFilebeat ==
    /\ pc = "filebeat"
    /\ services' = DictSet(services, S_filebeat, FilebeatService(proxy_nets))
    /\ i' = 0
    /\ pc' = "segment"
    /\ UNCHANGED <<RANGES, prev, file, networks, volumes, proxy_nets, j,
                   base, compose, out, printed>>

\* one turn of the outer loop up to the inner loop's head
BeginSegment ==
    /\ pc = "segment"
    /\ i < Len(RANGES)
    /\ LET subnet == RANGES[i + 1][1]
       IN  /\ networks' = DictSet(networks, NetName(i), NetworkDef(subnet))
           /\ base' = RsplitHead(subnet)
    /\ j' = 1
    /\ pc' = "client"
    /\ UNCHANGED <<RANGES, prev, file, services, volumes, proxy_nets, i,
                   compose, out, printed>>

\* one turn of the inner loop, for j in range(1, count+1)
AddClient ==
    /\ pc = "client"
    /\ j <= RANGES[i + 1][2]
    /\ LET name == ClientName(i, j)
       IN  services' = DictSet(services, name,
                               ClientService(name, NetName(i), base, j,
                                             RANGES[i + 1][3]))
    /\ j' = j + 1
    /\ UNCHANGED <<RANGES, prev, file, pc, networks, volumes, proxy_nets, i,
                   base, compose, out, printed>>

EndSegment ==
    /\ pc = "client"
    /\ j > RANGES[i + 1][2]
    /\ i' = i + 1
    /\ pc' = "segment"
    /\ UNCHANGED <<RANGES, prev, file, services, networks, volumes,
                   proxy_nets, j, base, compose, out, printed>>

\* compose = {'services': ..., 'networks': ..., 'volumes': ...}
Assemble ==
    /\ pc = "segment"
    /\ i >= Len(RANGES)
    /\ compose' = <<[k |-> S_services, v |-> services],
                    [k |-> S_networks, v |-> networks],
                    [k |-> S_volumes, v |-> volumes]>>
    /\ pc' = "open"
    /\ UNCHANGED <<RANGES, prev, file, services, networks, volumes,
                   proxy_nets, i, j, base, out, printed>>

\* open(OUTPUT_FILE, 'w') creates the file or truncates it to length zero
OpenFile ==
    /\ pc = "open"
    /\ file' = [exists |-> TRUE, content |-> <<>>]
    /\ out' = yaml_dump(compose, SORT_KEYS)
    /\ pc' = "dump"
    /\ UNCHANGED <<RANGES, prev, services, networks, volumes, proxy_nets,
                   i, j, base, compose, printed>>

\* open raises OSError (destination not writable): nothing is touched
OpenFail ==
    /\ pc = "open"
    /\ pc' = "failed"
    /\ UNCHANGED <<RANGES, prev, file, services, networks, volumes,
                   proxy_nets, i, j, base, compose, out, printed>>

\* the emitter writes the next piece of the document to the stream
WriteEntry ==
    /\ pc = "dump"
    /\ Len(file.content) < Len(out)
    /\ file' = [file EXCEPT !.content = Append(@, out[Len(@) + 1])]
    /\ UNCHANGED <<RANGES, prev, pc, services, networks, volumes, proxy_nets,
                   i, j, base, compose, out, printed>>

\* a write raises (disk full, I/O error); the with block closes the file
WriteFail ==
    /\ pc = "dump"
    /\ Len(file.content) < Len(out)
    /\ pc' = "failed"
    /\ UNCHANGED <<RANGES, prev, file, services, networks, volumes,
                   proxy_nets, i, j, base, compose, out, printed>>

\* the with block ends and the summary line is printed
Finish ==
    /\ pc = "dump"
    /\ Len(file.content) = Len(out)
    /\ printed' = <<Len(services) - 3, Len(networks)>>
    /\ pc' = "done"
    /\ UNCHANGED <<RANGES, prev, file, services, networks, volumes,
                   proxy_nets, i, j, base, compose, out>>

Next ==
    \/ Begin
    \/ AddProxy
    \/ AddCidrx
    \/ AddFilebeat
    \/ BeginSegment
    \/ AddClient
    \/ EndSegment
    \/ Assemble
    \/ OpenFile
    \/ OpenFail
    \/ WriteEntry
    \/ WriteFail
    \/ Finish

Spec == Init /\ [][Next]_vars

----------------------------------------------------------------------------
(* Reading the document back: IPv4 text, CIDR ranges, the built document *)

RECURSIVE Split(_, _)
Split(s, sep) ==
    LET at == {n \in 1..Len(s) : s[n] = sep}
    IN  IF at = {} THEN <<s>>
        ELSE LET f == CHOOSE n \in at : \A m \in at : n <= m
             IN  <<SubSeq(s, 1, f - 1)>> \o Split(SubSeq(s, f + 1, Len(s)), sep)

IsDigit(c) == \E n \in 1..10 : Digit[n] = c

IsNumber(s) == Len(s) \in 1..3 /\ \A n \in 1..Len(s) : IsDigit(s[n])

RECURSIVE StrNat(_)
StrNat(s) == IF s = <<>> THEN 0
             ELSE 10 * StrNat(SubSeq(s, 1, Len(s) - 1))
                  + (CHOOSE d \in 0..9 : Digit[d + 1] = s[Len(s)])

IsAddr(s) ==
    LET parts == Split(s, ".")
    IN  /\ Len(parts) = 4
        /\ \A n \in 1..4 : IsNumber(parts[n]) /\ StrNat(parts[n]) <= 255

Octets(s) == [n \in 1..4 |-> StrNat(Split(s, ".")[n])]

WellFormed(subnet) ==
    LET parts == Split(subnet, "/")
    IN  /\ Len(parts) = 2
        /\ IsAddr(parts[1])
        /\ IsNumber(parts[2])
        /\ StrNat(parts[2]) <= 32

NetOctets(subnet) == Octets(Split(subnet, "/")[1])

PrefixLen(subnet) == StrNat(Split(subnet, "/")[2])

Bits(oct) == [n \in 1..32 |->
                (oct[((n - 1) \div 8) + 1] \div (2 ^ (7 - ((n - 1) % 8)))) % 2]

InRange(addr, subnet) ==
    SubSeq(Bits(addr), 1, PrefixLen(subnet))
      = SubSeq(Bits(NetOctets(subnet)), 1, PrefixLen(subnet))

\* usable host numbers of a range are 1..HostSpace (network and broadcast out)
HostSpace(subnet) == (2 ^ (32 - PrefixLen(subnet))) - 2

\* the range's address with its host bits cleared
NetworkBase(subnet) ==
    LET b == Bits(NetOctets(subnet))
        z == [n \in 1..32 |-> IF n <= PrefixLen(subnet) THEN b[n] ELSE 0]
    IN  [o \in 1..4 |->
           z[8*o - 7] * 128 + z[8*o - 6] * 64 + z[8*o - 5] * 32 + z[8*o - 4] * 16
           + z[8*o - 3] * 8 + z[8*o - 2] * 4 + z[8*o - 1] * 2 + z[8*o]]

\* address arithmetic with carry into the higher octets
AddOffset(oct, n) ==
    LET low == oct[2] * 65536 + oct[3] * 256 + oct[4] + n
    IN  <<oct[1] + (low \div 16777216), (low \div 65536) % 256,
          (low \div 256) % 256, low % 256>>

OctLess(a, b) ==
    \E n \in 1..4 : a[n] < b[n] /\ \A m \in 1..(n - 1) : a[m] = b[m]

Built == pc \in {"open", "dump", "done", "failed"}

DocServices == DictGet(compose, S_services)

DocNetworks == DictGet(compose, S_networks)

DocVolumes == DictGet(compose, S_volumes)

Infra == {S_proxy, S_cidrx, S_filebeat}

Slots(n) == 1..RANGES[n][2]

ClientOf(n, slot) == DictGet(DocServices, ClientName(n - 1, slot))

AddrOf(n, slot) == ClientOf(n, slot).networks[1].v.ipv4_address

\* the depends_on list of a service definition as a set
Deps(v) == IF "depends_on" \in DOMAIN v
           THEN {v.depends_on[n] : n \in 1..Len(v.depends_on)}
           ELSE {}

DependsOn(d, k) == IF \E n \in 1..Len(d) : d[n].k = k
                   THEN Deps(DictGet(d, k))
                   ELSE {}

RECURSIVE SumCounts(_)
SumCounts(r) == IF r = <<>> THEN 0 ELSE Head(r)[2] + SumCounts(Tail(r))

RECURSIVE ExpectedClients(_, _)
ExpectedClients(r, n) ==
    IF n > Len(r) THEN <<>>
    ELSE [slot \in 1..r[n][2] |-> ClientName(n - 1, slot)]
         \o ExpectedClients(r, n + 1)

ExpectedServices == <<S_proxy, S_cidrx, S_filebeat>> \o ExpectedClients(RANGES, 1)

ExpectedNetworks == [n \in 1..Len(RANGES) |-> NetName(n - 1)]

IsPrefix(a, b) == Len(a) <= Len(b) /\ a = SubSeq(b, 1, Len(a))

FileKeys(sec) ==
    LET its == SelectSeq(file.content,
                         LAMBDA e : e.section = sec /\ ~e.header)
    IN  [n \in 1..Len(its) |-> its[n].key]

FileSections ==
    LET hs == SelectSeq(file.content, LAMBDA e : e.header)
    IN  [n \in 1..Len(hs) |-> hs[n].section]

----------------------------------------------------------------------------
(* Properties *)

\* C1: for every list of specs with natural host counts, the built document
\* has len(RANGES) networks, 3 + sum(hostCount) services and 1 volume, and
\* the (segment, slot) pairs and the infrastructure names give that many
\* different service keys.
C1_DocumentSizes ==
    (Built /\ \A n \in 1..Len(RANGES) : RANGES[n][2] >= 0) =>
        /\ Len(DocNetworks) = Len(RANGES)
        /\ Len(DocServices) = 3 + SumCounts(RANGES)
        /\ Len(DocVolumes) = 1
        /\ Cardinality(DictKeySet(DocServices)) = 3 + SumCounts(RANGES)
        /\ Cardinality(Infra \cup UNION {{ClientName(n - 1, slot) :
                                              slot \in Slots(n)} :
                                           n \in 1..Len(RANGES)})
             = 3 + SumCounts(RANGES)

C1_Witness ==
    /\ pc = "done"
    /\ Len(RANGES) = 2
    /\ RANGES[1][2] = 2
    /\ RANGES[2][2] = 1
    /\ Len(DocServices) = 6
    /\ Len(DocNetworks) = 2

\* C2 (as claimed): in every segment with a well-formed range the client
\* addresses are pairwise distinct, valid IPv4 addresses inside the range.
C2_AddressesInRange ==
    Built =>
        \A n \in 1..Len(RANGES) :
            WellFormed(RANGES[n][1]) =>
                /\ \A a, b \in Slots(n) : a # b => AddrOf(n, a) # AddrOf(n, b)
                /\ \A a \in Slots(n) :
                       /\ IsAddr(AddrOf(n, a))
                       /\ InRange(Octets(AddrOf(n, a)), RANGES[n][1])

\* C3 (as claimed): when 31 + hostCount exceeds the host space of a range,
\* expansion aborts and no client past the host space enters the document.
C3_Exhausted ==
    \A n \in 1..Len(RANGES) :
        (/\ WellFormed(RANGES[n][1])
         /\ RESERVED_OFFSET + RANGES[n][2] > HostSpace(RANGES[n][1])) =>
            /\ ~Built
            /\ \A slot \in Slots(n) :
                   ClientName(n - 1, slot) \in DictKeySet(services) =>
                       RESERVED_OFFSET + slot <= HostSpace(RANGES[n][1])

\* C4: in the built document proxy, cidrx and filebeat are members of
\* exactly the networks that are keys of the networks map, net1..netN.
C4_InfraOnEveryNetwork ==
    Built =>
        \A s \in Infra :
            /\ DictKeySet(DictGet(DocServices, s).networks)
                 = DictKeySet(DocNetworks)
            /\ DictKeySet(DocNetworks) = {NetName(n - 1) : n \in 1..Len(RANGES)}

C4_Witness ==
    /\ Built
    /\ Len(RANGES) = 2
    /\ Len(DocNetworks) = 2
    /\ DictKeys(DictGet(DocServices, S_filebeat).networks)
         = <<NetName(0), NetName(1)>>

\* C5: in the built document every network a service is a member of is a
\* key of the networks map and every depends_on entry is a key of the
\* services map.
C5_ReferencesResolve ==
    Built =>
        LET nets == DictKeySet(DocNetworks)
            svcs == DictKeySet(DocServices)
        IN  \A n \in 1..Len(DocServices) :
                /\ DictKeySet(DocServices[n].v.networks) \subseteq nets
                /\ Deps(DocServices[n].v) \subseteq svcs

C5_Witness ==
    /\ Built
    /\ Len(RANGES) = 2
    /\ RANGES[1][2] = 0
    /\ RANGES[2][2] = 1
    /\ ClientName(1, 1) \in DictKeySet(DocServices)
    /\ DependsOn(DocServices, ClientName(1, 1)) = {S_proxy}

\* C6 (as claimed): at every point of a run the destination file is what it
\* was before the run or holds the complete document, and it is not touched
\* before the document is built.
C6_FileIntact ==
    /\ \/ file = prev
       \/ /\ Built
          /\ file = [exists |-> TRUE, content |-> yaml_dump(compose, SORT_KEYS)]
    /\ file # prev => Built

\* C7 (as claimed): with a malformed range or a non-positive host count in
\* the list, the run aborts: no document is assembled, nothing is written.
C7_InvalidSpecFailsFast ==
    (\E n \in 1..Len(RANGES) :
         ~WellFormed(RANGES[n][1]) \/ RANGES[n][2] <= 0) =>
        /\ file = prev
        /\ compose = <<>>
        /\ pc # "done"

\* C8: keys enter the services map as proxy, cidrx, filebeat, then the
\* clients by segment and by slot, and the networks map as net1, net2, ...;
\* the written file lists the sections and their keys in that same order.
C8_KeyOrder ==
    /\ IsPrefix(DictKeys(services), ExpectedServices)
    /\ IsPrefix(DictKeys(networks), ExpectedNetworks)
    /\ Built => /\ DictKeys(DocServices) = ExpectedServices
                /\ DictKeys(DocNetworks) = ExpectedNetworks
    /\ pc = "done" => /\ FileSections = <<S_services, S_networks, S_volumes>>
                      /\ FileKeys(S_services) = ExpectedServices
                      /\ FileKeys(S_networks) = ExpectedNetworks

C8_Witness ==
    /\ pc = "done"
    /\ Len(RANGES) = 2
    /\ FileKeys(S_services) = <<S_proxy, S_cidrx, S_filebeat, ClientName(0, 1),
                                ClientName(0, 2), ClientName(1, 1)>>
    /\ FileKeys(S_networks) = <<NetName(0), NetName(1)>>

\* C9: in the built document a client depends on exactly proxy, filebeat on
\* exactly proxy and cidrx, proxy and cidrx declare no depends_on, and no
\* chain of dependencies is longer than two edges (so there is no cycle).
C9_Dependencies ==
    Built =>
        /\ \A n \in 1..Len(DocServices) :
               LET k == DocServices[n].k
               IN  IF k \in {S_proxy, S_cidrx}
                   THEN "depends_on" \notin DOMAIN DocServices[n].v
                   ELSE IF k = S_filebeat
                   THEN Deps(DocServices[n].v) = {S_proxy, S_cidrx}
                   ELSE Deps(DocServices[n].v) = {S_proxy}
        /\ \A n \in 1..Len(DocServices) :
               \A d \in Deps(DocServices[n].v) :
                   \A e \in DependsOn(DocServices, d) :
                       DependsOn(DocServices, e) = {}

C9_Witness ==
    /\ Built
    /\ Len(DocServices) > 3
    /\ DependsOn(DocServices, DocServices[4].k) = {S_proxy}
    /\ DependsOn(DocServices, S_filebeat) = {S_proxy, S_cidrx}
    /\ DependsOn(DocServices, S_proxy) = {}

\* C10 (as claimed): for a well-formed range at index n, client{n}_{slot}
\* is a member of net{n} alone, at the address networkBase + 31 + slot, and
\* the addresses of a segment increase strictly with the slot.
C10_ClientAddress ==
    Built =>
        \A n \in 1..Len(RANGES) :
            WellFormed(RANGES[n][1]) =>
                \A slot \in Slots(n) :
                    /\ ClientName(n - 1, slot) \in DictKeySet(DocServices)
                    /\ DictKeys(ClientOf(n, slot).networks) = <<NetName(n - 1)>>
                    /\ IsAddr(AddrOf(n, slot))
                    /\ Octets(AddrOf(n, slot))
                         = AddOffset(NetworkBase(RANGES[n][1]),
                                     RESERVED_OFFSET + slot)
                    /\ slot > 1 => /\ IsAddr(AddrOf(n, slot - 1))
                                   /\ OctLess(Octets(AddrOf(n, slot - 1)),
                                              Octets(AddrOf(n, slot)))

====
